---------------------------- MODULE Spec2Model ----------------------------
(***************************************************************************)
(* A model of src/arduino/arduino.ts (class ArduinoApp).                   *)
(*                                                                         *)
(* Three state machines share the module:                                  *)
(*   Spec        the toolchain operations (installBoard, installLibrary,   *)
(*               uninstallBoard, uninstallLibrary, verify, upload, setPref,*)
(*               initialize, initializeLibrary), one step per await point; *)
(*   SpecConfig  addLibPath, the read-modify-write of the C/C++            *)
(*               configuration file;                                       *)
(*   SpecPrefs   the lazily loaded preferences map.                        *)
(***************************************************************************)
EXTENDS Integers, Sequences, FiniteSets, TLC

VARIABLES
    \* ---- addLibPath ----
    configFile,     \* the text of <rootPath>/.vscode/c_cpp_properties.json
    configDir,      \* whether the directory of the configuration file exists
    calls,          \* history: one record per addLibPath call made so far
    \* ---- toolchain operations ----
    currentBoard,   \* boardManager.currentBoard
    logLevel,       \* _settings.logLevel
    dcPort,         \* DeviceContext.port
    op,             \* the operation in flight, or the last one finished
    opsDone,        \* number of operations invoked so far
    \* ---- preferences ----
    prefsFile,      \* the text of <packagePath>/preferences.txt, or unreadable
    _preferences,   \* the field ArduinoApp._preferences
    accesses        \* history: one record per read of the `preferences` getter

configVars == <<configFile, configDir, calls>>
opVars     == <<currentBoard, logLevel, dcPort, op, opsDone>>
prefVars   == <<prefsFile, _preferences, accesses>>
vars       == <<configFile, configDir, calls, currentBoard, logLevel, dcPort,
                op, opsDone, prefsFile, _preferences, accesses>>

-----------------------------------------------------------------------------
(* Bounds of the model.                                                    *)

MaxSections == 2    \* sections in an initial configuration document
MaxCalls    == 2    \* addLibPath calls in one behaviour
MaxOps      == 2    \* toolchain operations in one behaviour
MaxLines    == 2    \* lines of the preferences document
MaxAccesses == 2    \* reads of the preferences getter in one behaviour

-----------------------------------------------------------------------------
(* JavaScript objects are functions from their own keys to values; a key   *)
(* that is not in the domain is an absent (undefined) property.            *)

Has(obj, key) == key \in DOMAIN obj

Put(obj, key, val) ==
    [k \in (DOMAIN obj) \cup {key} |-> IF k = key THEN val ELSE obj[k]]

EmptyObject == [k \in {} |-> TRUE]

Last(s) == s[Len(s)]

-----------------------------------------------------------------------------
(* Path strings.  A path string is the pair of its leading-slash flag and  *)
(* its "/"-separated segments: "/a/../b" is [abs |-> TRUE,                 *)
(* segs |-> <<"a", "..", "b">>], "./lib" is [abs |-> FALSE,                *)
(* segs |-> <<".", "lib">>], and "" is [abs |-> FALSE, segs |-> <<>>].     *)

Str(abs, segs) == [abs |-> abs, segs |-> segs]

EmptyString == Str(FALSE, <<>>)

\* process.cwd(): an absolute, normalized directory.
Cwd == Str(TRUE, <<"w">>)

\* Node's normalizeString: drop "." segments, let ".." remove the segment
\* before it, keep a leading ".." only when allowAboveRoot.
RECURSIVE NormalizeString(_, _, _)
NormalizeString(segs, allowAboveRoot, res) ==
    IF segs = <<>> THEN res
    ELSE LET s == Head(segs) IN
         IF s = "." THEN NormalizeString(Tail(segs), allowAboveRoot, res)
         ELSE IF s = ".." THEN
              IF res # <<>> /\ Last(res) # ".."
              THEN NormalizeString(Tail(segs), allowAboveRoot,
                                   SubSeq(res, 1, Len(res) - 1))
              ELSE IF allowAboveRoot
                   THEN NormalizeString(Tail(segs), allowAboveRoot,
                                        Append(res, ".."))
                   ELSE NormalizeString(Tail(segs), allowAboveRoot, res)
         ELSE NormalizeString(Tail(segs), allowAboveRoot, Append(res, s))

\* path.normalize(p): "" and a relative path that normalizes to nothing
\* become ".".
PathNormalize(p) ==
    LET n == NormalizeString(p.segs, ~p.abs, <<>>) IN
    IF ~p.abs /\ n = <<>> THEN Str(FALSE, <<".">>) ELSE Str(p.abs, n)

\* path.resolve(p): an absolute path is normalized; a relative one is
\* appended to the current working directory first.
PathResolve(p) ==
    IF p.abs THEN Str(TRUE, NormalizeString(p.segs, FALSE, <<>>))
    ELSE Str(TRUE, NormalizeString(Cwd.segs \o p.segs, FALSE, <<>>))

\* path.join(a, b): concatenate with a separator, then normalize.
PathJoin(a, b) ==
    IF a = EmptyString THEN PathNormalize(b)
    ELSE PathNormalize(Str(a.abs, a.segs \o b.segs))

-----------------------------------------------------------------------------
(* The configuration file.  Its text is absent, text that JSON.parse       *)
(* rejects, or the serialization of a value with some indentation; the     *)
(* same value serialized with another indentation is another text.         *)

NoFile == [kind |-> "absent"]

Garbage(t) == [kind |-> "garbage", text |-> t]

JsonText(indent, value) == [kind |-> "json", indent |-> indent, value |-> value]

\* JSON.stringify(value, null, 4)
JSON_INDENT == 4

JSONStringify(value) == JsonText(JSON_INDENT, value)

\* util.fileExistsSync(configFilePath)
fileExistsSync(file) == file.kind # "absent"

\* util.tryParseJSON(text): the parsed object, or a falsy value when the
\* text does not parse.
tryParseJSON(file) ==
    IF file.kind = "json" THEN [ok |-> TRUE, value |-> file.value]
    ELSE [ok |-> FALSE]

\* util.getCppConfigPlatform(): the platform identifier of this host.
getCppConfigPlatform == "Linux"

\* A board descriptor, and the absent selection.
NoBoard == [selected |-> FALSE]

Board(pkg, arch, board, root) ==
    [selected |-> TRUE,
     platform |-> [package |-> [name |-> pkg], architecture |-> arch,
                   rootBoardPath |-> root],
     board |-> board]

\* The listing of <rootBoardPath>/cores: the directory is absent, or holds
\* the named entries.
NoDir == [exists |-> FALSE]

Dir(entries) == [exists |-> TRUE, entries |-> entries]

\* getDefaultPackageLibPaths(): one normalized path per entry of the
\* "cores" directory of the selected board's platform.
getDefaultPackageLibPaths(board, coresDir) ==
    IF ~board.selected THEN <<>>
    ELSE LET toolsPath == board.platform.rootBoardPath
             cores == Str(FALSE, <<"cores">>)
         IN IF coresDir.exists /\ Len(coresDir.entries) > 0
            THEN [i \in 1..Len(coresDir.entries) |->
                    PathNormalize(PathJoin(PathJoin(toolsPath, cores),
                                           Str(FALSE, <<coresDir.entries[i]>>)))]
            ELSE <<>>

\* Lines 143-149: every section named after the platform becomes
\* configSection in turn and has browse.limitSymbolsToIncludedHeaders
\* forced to false.  configSection is the index of the section (0 for
\* null).
ScanStepMutantDropBrowse(section) ==
    Put(section, "browse", [limitSymbolsToIncludedHeaders |-> FALSE])

ScanStep(section) ==
    LET browse == IF Has(section, "browse") THEN section.browse
                  ELSE EmptyObject
    IN Put(section, "browse",
           Put(browse, "limitSymbolsToIncludedHeaders", FALSE))

ScanMatches(section, configSection) ==
    Has(section, "name") /\ section.name = getCppConfigPlatform

RECURSIVE ScanSections(_, _, _)
ScanSections(sections, i, configSection) ==
    IF i > Len(sections)
    THEN [sections |-> sections, configSection |-> configSection]
    ELSE IF ScanMatches(sections[i], configSection)
         THEN ScanSections([sections EXCEPT ![i] = ScanStep(sections[i])],
                           i + 1, i)
         ELSE ScanSections(sections, i + 1, configSection)

\* Lines 152-156: the section created when none matched.
NewSection ==
    [name |-> getCppConfigPlatform,
     includePath |-> <<>>,
     browse |-> [limitSymbolsToIncludedHeaders |-> FALSE]]

\* Lines 160-172: each candidate, resolved, is appended to includePath
\* unless an entry of includePath resolves to the same path.
ExistingMatchesMutantRaw(childLibPath, existingPath) ==
    childLibPath = existingPath

ExistingMatchesMutantNever(childLibPath, existingPath) == FALSE

ExistingMatches(childLibPath, existingPath) ==
    childLibPath = PathResolve(PathNormalize(existingPath))

RECURSIVE MergeLibPaths(_, _)
MergeLibPaths(libPaths, configSection) ==
    IF libPaths = <<>> THEN configSection
    ELSE LET childLibPath == PathResolve(PathNormalize(Head(libPaths)))
             nonEmpty == Has(configSection, "includePath")
                            /\ Len(configSection.includePath) > 0
             includePath == IF nonEmpty THEN configSection.includePath
                            ELSE <<>>
             found == \E j \in 1..Len(includePath) :
                         ExistingMatches(childLibPath, includePath[j])
         IN IF found
            THEN MergeLibPaths(Tail(libPaths), configSection)
            ELSE MergeLibPaths(Tail(libPaths),
                               Put(configSection, "includePath",
                                   Append(includePath, childLibPath)))

\* Logger.notifyAndThrowUserError: the user is notified and the error is
\* thrown to the caller of addLibPath.
notifyAndThrowUserError(file, dirExists) ==
    [threw |-> TRUE, notified |-> TRUE, file |-> file, dir |-> dirExists]

\* Lines 129-139: the document addLibPath starts from.
LoadDocumentMutantDefault(file) ==
    IF ~fileExistsSync(file) \/ file.kind = "garbage"
    THEN [ok |-> TRUE, value |-> EmptyObject]
    ELSE tryParseJSON(file)

LoadDocument(file) ==
    IF ~fileExistsSync(file) THEN [ok |-> TRUE, value |-> EmptyObject]
    ELSE tryParseJSON(file)

\* addLibPath from line 129 on, for the candidate paths libPaths: what it
\* leaves on disk and how it ends.
Reconcile(file, dirExists, libPaths) ==
    LET dir == IF fileExistsSync(file) THEN dirExists ELSE TRUE
        loaded == LoadDocument(file)
    IN IF ~loaded.ok THEN notifyAndThrowUserError(file, dir)
       ELSE LET deviceContext == loaded.value
                configurations ==
                    IF Has(deviceContext, "configurations")
                    THEN deviceContext.configurations ELSE <<>>
                scanned == ScanSections(configurations, 1, 0)
                sections == IF scanned.configSection = 0
                            THEN Append(scanned.sections, NewSection)
                            ELSE scanned.sections
                idx == IF scanned.configSection = 0 THEN Len(sections)
                       ELSE scanned.configSection
                merged == [sections EXCEPT
                             ![idx] = MergeLibPaths(libPaths, sections[idx])]
                written == Put(deviceContext, "configurations", merged)
            IN [threw |-> FALSE, notified |-> FALSE,
                file |-> JSONStringify(written), dir |-> dir]

-----------------------------------------------------------------------------
(* Inputs of addLibPath.                                                   *)

PathA     == Str(TRUE, <<"a">>)                  \* "/a"
PathB     == Str(TRUE, <<"b">>)                  \* "/b"
PathLib   == Str(FALSE, <<"lib">>)               \* "lib"
PathDotLib == Str(FALSE, <<".", "lib">>)         \* "./lib"
PathCwdLib == Str(TRUE, <<"w", "lib">>)          \* "<cwd>/lib"
PathUpB   == Str(TRUE, <<"a", "..", "b">>)       \* "/a/../b"
PathOther == Str(TRUE, <<"o">>)                  \* "/o"

\* The argument of addLibPath; "" asks for the default paths.
LibraryPathInputs == {EmptyString, PathA, PathDotLib, PathCwdLib, PathUpB}

\* The selected board, if any.
TheBoard == Board("arduino", "avr", "uno", Str(TRUE, <<"t">>))

BoardInputs == {NoBoard, TheBoard}

\* What readdirSync finds under <rootBoardPath>/cores.
CoresDirInputs == {NoDir, Dir(<<>>), Dir(<<"x">>), Dir(<<"x", "y">>)}

\* includePath arrays of an existing platform section.
IncludePathInputs == {<<>>, <<PathA>>, <<PathLib, PathB>>}

\* Sections of an existing document: sections of this platform with and
\* without includePath, browse and a field the tool does not know, and
\* sections of another platform.
SectionInputs ==
    {[name |-> getCppConfigPlatform, defines |-> "D"]}
    \cup {[name |-> getCppConfigPlatform, defines |-> "D", includePath |-> e] :
            e \in IncludePathInputs}
    \cup {[name |-> getCppConfigPlatform, includePath |-> <<PathA>>,
           browse |-> [limitSymbolsToIncludedHeaders |-> TRUE, path |-> "p"]]}
    \cup {[name |-> "Mac", includePath |-> <<PathOther>>,
           browse |-> [limitSymbolsToIncludedHeaders |-> TRUE]],
          [name |-> "Mac"]}

SectionSeqs == UNION {[1..n -> SectionInputs] : n \in 0..MaxSections}

\* Parsable documents: with and without `configurations`, with and without
\* a top-level field the tool does not know.
DocumentInputs ==
    {EmptyObject, [version |-> "3"]}
    \cup {[version |-> "3", configurations |-> c] : c \in SectionSeqs}

\* Texts a user's editor leaves: indented by 2.
ConfigFileInputs ==
    {NoFile, Garbage(""), Garbage("{ oops")}
    \cup {JsonText(2, d) : d \in DocumentInputs}

-----------------------------------------------------------------------------
(* addLibPath(libraryPath), lines 121-175.                                 *)

AddLibPath ==
    /\ Len(calls) < MaxCalls
    /\ \E libraryPath \in LibraryPathInputs :
       \E coresDir \in (IF libraryPath # EmptyString THEN {NoDir}
                        ELSE CoresDirInputs) :
         LET libPaths == IF libraryPath # EmptyString THEN <<libraryPath>>
                         ELSE getDefaultPackageLibPaths(currentBoard, coresDir)
             r == Reconcile(configFile, configDir, libPaths)
         IN /\ configFile' = r.file
            /\ configDir' = r.dir
            /\ calls' = Append(calls,
                               [libPaths |-> libPaths, before |-> configFile,
                                threw |-> r.threw, notified |-> r.notified])
    /\ UNCHANGED <<opVars, prefVars>>

\* Values of the variables a specification does not exercise.
IdleOp == [kind |-> "none", pc |-> "done"]

ConfigIdle ==
    configFile = NoFile /\ configDir = FALSE /\ calls = <<>>

OpsIdle ==
    /\ currentBoard = NoBoard /\ logLevel = "info" /\ dcPort = "COM1"
    /\ op = IdleOp /\ opsDone = 0

PrefsIdle ==
    prefsFile = [readable |-> FALSE] /\ _preferences = [loaded |-> FALSE]
        /\ accesses = <<>>

InitConfig ==
    /\ configFile \in ConfigFileInputs
    /\ configDir \in (IF fileExistsSync(configFile) THEN {TRUE} ELSE BOOLEAN)
    /\ calls = <<>>
    /\ currentBoard \in BoardInputs
    /\ logLevel = "info" /\ dcPort = "COM1" /\ op = IdleOp /\ opsDone = 0
    /\ PrefsIdle

NextConfig == AddLibPath

SpecConfig == InitConfig /\ [][NextConfig]_vars

-----------------------------------------------------------------------------
(* Properties of addLibPath.                                               *)

\* The file as the i-th call left it.
After(i) == IF i < Len(calls) THEN calls[i + 1].before ELSE configFile

\* The document a call starts from and the document it wrote.
DocBefore(i) ==
    IF calls[i].before.kind = "json" THEN calls[i].before.value
    ELSE EmptyObject

DocAfter(i) == After(i).value

Configurations(doc) ==
    IF Has(doc, "configurations") THEN doc.configurations ELSE <<>>

IncludePathOf(section) ==
    IF Has(section, "includePath") THEN section.includePath ELSE <<>>

IsPlatformSection(section) ==
    Has(section, "name") /\ section.name = getCppConfigPlatform

PlatformIndexes(doc) ==
    {i \in 1..Len(Configurations(doc)) :
        IsPlatformSection(Configurations(doc)[i])}

Succeeded(i) == ~calls[i].threw /\ calls[i].before.kind # "garbage"

Resolved(p) == PathResolve(PathNormalize(p))

\* C1: a call that finds text it cannot parse throws, notifies the user and
\* leaves the text of the file as it was.
C1_UnparsableFileUntouched ==
    \A i \in 1..Len(calls) :
        calls[i].before.kind = "garbage" =>
            /\ calls[i].threw
            /\ calls[i].notified
            /\ After(i) = calls[i].before

C1_Witness ==
    \E i \in 1..Len(calls) :
        /\ calls[i].before.kind = "garbage"
        /\ calls[i].libPaths # <<>>
        /\ calls[i].threw

\* C2: a second call with the same candidate paths leaves the includePath
\* of every section as the first call left it.
IncludePaths(doc) ==
    [i \in 1..Len(Configurations(doc)) |->
        IncludePathOf(Configurations(doc)[i])]

C2_Idempotent ==
    \A i \in 2..Len(calls) :
        (/\ calls[i].libPaths = calls[i - 1].libPaths
         /\ Succeeded(i - 1) /\ Succeeded(i))
        => IncludePaths(DocAfter(i)) = IncludePaths(DocAfter(i - 1))

C2_Witness ==
    \E i \in 2..Len(calls) :
        /\ calls[i].libPaths = calls[i - 1].libPaths
        /\ Succeeded(i - 1) /\ Succeeded(i)
        /\ IncludePaths(DocAfter(i - 1)) # IncludePaths(DocBefore(i - 1))
        /\ IncludePaths(DocAfter(i)) = IncludePaths(DocAfter(i - 1))

\* C3: the includePath of the section addLibPath works on is what it was,
\* followed in candidate order by the resolved form of each candidate that
\* resolves to no entry of it and to no earlier candidate.
NewCandidates(E, P) ==
    {i \in 1..Len(P) :
        /\ \A j \in 1..Len(E) : Resolved(E[j]) # Resolved(P[i])
        /\ \A j \in 1..(i - 1) : Resolved(P[j]) # Resolved(P[i])}

ExpectedIncludePath(E, P) ==
    LET kept == SelectSeq([i \in 1..Len(P) |-> i],
                          LAMBDA i : i \in NewCandidates(E, P))
    IN E \o [k \in 1..Len(kept) |-> Resolved(P[kept[k]])]

\* The section that is configSection when the scan ends (0: none).
ActiveIndex(doc) ==
    IF PlatformIndexes(doc) = {} THEN 0
    ELSE CHOOSE i \in PlatformIndexes(doc) :
            \A j \in PlatformIndexes(doc) : j <= i

C3_MergeResult ==
    \A i \in 1..Len(calls) :
        Succeeded(i) =>
            LET a == ActiveIndex(DocBefore(i))
                E == IF a = 0 THEN <<>>
                     ELSE IncludePathOf(Configurations(DocBefore(i))[a])
                at == IF a = 0 THEN Len(Configurations(DocAfter(i))) ELSE a
            IN IncludePathOf(Configurations(DocAfter(i))[at])
                 = ExpectedIncludePath(E, calls[i].libPaths)

\* A call with two candidates on a non-empty includePath, the first
\* already present and the second new.
C3_Witness ==
    \E i \in 1..Len(calls) :
        /\ Succeeded(i)
        /\ ActiveIndex(DocBefore(i)) # 0
        /\ LET a == ActiveIndex(DocBefore(i))
               E == IncludePathOf(Configurations(DocBefore(i))[a])
               P == calls[i].libPaths
           IN /\ Len(E) >= 2 /\ Len(P) = 2 /\ NewCandidates(E, P) = {2}
              /\ IncludePathOf(Configurations(DocAfter(i))[a])
                    = Append(E, Resolved(P[2]))

\* C4: a successful call on a parsable document keeps every top-level field
\* but `configurations`, every section of another platform where it was,
\* and every field of a platform section but includePath and
\* browse.limitSymbolsToIncludedHeaders.
SectionFrame(s0, s1) ==
    IF ~IsPlatformSection(s0) THEN s1 = s0
    ELSE /\ \A k \in DOMAIN s0 \ {"includePath", "browse"} :
               Has(s1, k) /\ s1[k] = s0[k]
         /\ DOMAIN s1 \subseteq DOMAIN s0 \cup {"includePath", "browse"}
         /\ Has(s0, "browse") =>
               /\ \A k \in DOMAIN s0.browse \ {"limitSymbolsToIncludedHeaders"} :
                     Has(s1.browse, k) /\ s1.browse[k] = s0.browse[k]
               /\ DOMAIN s1.browse \subseteq
                     DOMAIN s0.browse \cup {"limitSymbolsToIncludedHeaders"}

DocumentFrame(d0, d1) ==
    /\ \A k \in DOMAIN d0 \ {"configurations"} : Has(d1, k) /\ d1[k] = d0[k]
    /\ DOMAIN d1 \subseteq DOMAIN d0 \cup {"configurations"}
    /\ Len(Configurations(d1)) >= Len(Configurations(d0))
    /\ \A j \in 1..Len(Configurations(d0)) :
          SectionFrame(Configurations(d0)[j], Configurations(d1)[j])

C4_Frame ==
    \A i \in 1..Len(calls) :
        (calls[i].before.kind = "json" /\ ~calls[i].threw)
        => DocumentFrame(DocBefore(i), DocAfter(i))

C4_Witness ==
    \E i \in 1..Len(calls) :
        /\ calls[i].before.kind = "json" /\ ~calls[i].threw
        /\ Has(DocBefore(i), "version")
        /\ \E j, k \in 1..Len(Configurations(DocBefore(i))) :
              LET s == Configurations(DocBefore(i))[j]
                  t == Configurations(DocBefore(i))[k]
              IN /\ IsPlatformSection(s)
                 /\ Has(s, "browse") /\ Has(s.browse, "path")
                 /\ ~IsPlatformSection(t) /\ Has(t, "browse")
        /\ IncludePaths(DocAfter(i)) # IncludePaths(DocBefore(i))

\* C10: with two or more sections of this platform, the candidates go to
\* the first of them, the later ones keep their includePath, and no section
\* is appended.
FirstIndex(doc) ==
    CHOOSE i \in PlatformIndexes(doc) : \A j \in PlatformIndexes(doc) : i <= j

C10_FirstDuplicateIsActive ==
    \A i \in 1..Len(calls) :
        (Succeeded(i) /\ Cardinality(PlatformIndexes(DocBefore(i))) >= 2)
        => LET c0 == Configurations(DocBefore(i))
               c1 == Configurations(DocAfter(i))
               f == FirstIndex(DocBefore(i))
           IN /\ Len(c1) = Len(c0)
              /\ IncludePathOf(c1[f])
                   = ExpectedIncludePath(IncludePathOf(c0[f]), calls[i].libPaths)
              /\ \A j \in PlatformIndexes(DocBefore(i)) \ {f} :
                    IncludePathOf(c1[j]) = IncludePathOf(c0[j])

-----------------------------------------------------------------------------
(* The toolchain operations.  `op` is the operation in flight: what it has *)
(* sent to the output channel, the user notifications it raised, the state *)
(* of the close-serial-monitor command and of the toolchain process it     *)
(* started, and what its caller observes.                                  *)

PortInputs == {"COM1", "COM2"}

LogLevelInputs == {"info", "verbose"}

VersionInputs == {"", "1.6.2"}

\* How a spawned toolchain process ends: exit code 0, a non-zero exit code,
\* or a failure to launch.
ExitInputs == {"0", "1", "ENOENT"}

NewOp(kind) ==
    [kind |-> kind, pc |-> "done", board |-> NoBoard, channel |-> <<>>,
     notified |-> 0, closeSerial |-> "none", closePort |-> "",
     spawns |-> 0, proc |-> "none", args |-> <<>>, output |-> FALSE,
     outcome |-> "pending", code |-> ""]

Idle == op.pc = "done" /\ opsDone < MaxOps

\* util.spawn(command, outputChannel, args): the toolchain process starts;
\* the promise settles when the process ends.
Spawn(o, output, args) ==
    [o EXCEPT !.pc = "spawned", !.spawns = @ + 1, !.proc = "running",
              !.args = args, !.output = output]

\* The promise of util.spawn resolves on exit code 0 and rejects, with the
\* code, otherwise.
SpawnResolves(result) == result = "0"

Send(o, msg) == [o EXCEPT !.channel = Append(@, msg)]

Resolve(o) == [o EXCEPT !.pc = "done", !.outcome = "resolved"]

Reject(o, code) == [o EXCEPT !.pc = "done", !.outcome = "rejected", !.code = code]

\* getBoardDescriptorString(), lines 260-268: the descriptor string, or a
\* user notification and undefined.
getBoardDescriptorString(board) ==
    IF ~board.selected
    THEN [defined |-> FALSE, notified |-> 1, string |-> <<>>]
    ELSE [defined |-> TRUE, notified |-> 0,
          string |-> <<board.platform.package.name,
                       board.platform.architecture, board.board>>]

\* Lines 80-82 and 104-106: `if (!boardDescriptor) return;`
NoDescriptorMutantIgnored(descriptor) == FALSE

NoDescriptor(descriptor) == ~descriptor.defined

\* Lines 89-93 and 108-112: the argument vector of verify and upload.
BuildArgs(flag, descriptor, port, level) ==
    <<flag, "--board", descriptor.string, "--port", port, "sketch.ino">>
        \o (IF level = "verbose" THEN <<"--verbose">> ELSE <<>>)

\* boardManager setter, lines 240-242.
SetBoardManager ==
    /\ \E b \in BoardInputs : b # currentBoard /\ currentBoard' = b
    /\ UNCHANGED <<logLevel, dcPort, op, opsDone, configVars, prefVars>>

\* The device context's port is changed between operations.
SelectPort ==
    /\ op.pc = "done"
    /\ \E p \in PortInputs : p # dcPort /\ dcPort' = p
    /\ UNCHANGED <<currentBoard, logLevel, op, opsDone, configVars, prefVars>>

\* installBoard, lines 180-185, up to the await.
InstallBoardStart(kind, version, showOutput) ==
    Spawn(Send(Send(NewOp(kind), "show"), "start"), showOutput,
          <<"--install-boards",
            IF version # "" THEN <<"pkg", "arch", version>>
            ELSE <<"pkg", "arch">>>>)

\* installLibrary, lines 195-200, up to the await.
InstallLibraryStart(kind, version, showOutput) ==
    Spawn(Send(Send(NewOp(kind), "show"), "start"), showOutput,
          <<"--install-library",
            IF version # "" THEN <<"lib", version>> ELSE <<"lib">>>>)

InstallBoard ==
    /\ Idle
    /\ \E version \in VersionInputs, showOutput \in BOOLEAN :
          op' = InstallBoardStart("installBoard", version, showOutput)
    /\ opsDone' = opsDone + 1
    /\ UNCHANGED <<currentBoard, logLevel, dcPort, configVars, prefVars>>

InstallLibrary ==
    /\ Idle
    /\ \E version \in VersionInputs, showOutput \in BOOLEAN :
          op' = InstallLibraryStart("installLibrary", version, showOutput)
    /\ opsDone' = opsDone + 1
    /\ UNCHANGED <<currentBoard, logLevel, dcPort, configVars, prefVars>>

\* initialize(force), lines 40-48: installs the dummy package unless the
\* package index is there already.
Initialize ==
    /\ Idle
    /\ \E force \in BOOLEAN, indexExists \in BOOLEAN :
          op' = IF force \/ ~indexExists
                THEN InstallBoardStart("initialize", "", FALSE)
                ELSE Resolve(NewOp("initialize"))
    /\ opsDone' = opsDone + 1
    /\ UNCHANGED <<currentBoard, logLevel, dcPort, configVars, prefVars>>

\* initializeLibrary(), lines 53-61.
InitializeLibrary ==
    /\ Idle
    /\ \E indexExists \in BOOLEAN :
          op' = IF ~indexExists
                THEN InstallLibraryStart("initializeLibrary", "", FALSE)
                ELSE Resolve(NewOp("initializeLibrary"))
    /\ opsDone' = opsDone + 1
    /\ UNCHANGED <<currentBoard, logLevel, dcPort, configVars, prefVars>>

\* The continuation of installBoard and installLibrary, lines 186 and 202:
\* reached only when the await did not throw.  Within initialize and
\* initializeLibrary the exception is caught and dropped.
InstallSettled ==
    /\ op.pc = "spawned"
    /\ op.kind \in {"installBoard", "installLibrary", "initialize",
                    "initializeLibrary"}
    /\ \E result \in ExitInputs :
          LET o == [op EXCEPT !.proc = result] IN
          op' = IF SpawnResolves(result) THEN Resolve(Send(o, "end"))
                ELSE IF op.kind \in {"initialize", "initializeLibrary"}
                     THEN Resolve(o)
                     ELSE Reject(o, result)
    /\ UNCHANGED <<currentBoard, logLevel, dcPort, opsDone, configVars, prefVars>>

\* setPref(key, value), lines 68-75.
SetPref ==
    /\ Idle
    /\ op' = Spawn(NewOp("setPref"), FALSE, <<"--pref", "key=value">>)
    /\ opsDone' = opsDone + 1
    /\ UNCHANGED <<currentBoard, logLevel, dcPort, configVars, prefVars>>

SetPrefSettled ==
    /\ op.pc = "spawned" /\ op.kind = "setPref"
    /\ \E result \in ExitInputs : op' = Resolve([op EXCEPT !.proc = result])
    /\ UNCHANGED <<currentBoard, logLevel, dcPort, opsDone, configVars, prefVars>>

\* uninstallBoard and uninstallLibrary, lines 189-193 and 205-209: a
\* synchronous recursive deletion, which may throw.
Uninstall(kind) ==
    /\ Idle
    /\ \E deleted \in BOOLEAN :
          LET o == Send(NewOp(kind), "start") IN
          op' = IF deleted THEN Resolve(Send(o, "end")) ELSE Reject(o, "EPERM")
    /\ opsDone' = opsDone + 1
    /\ UNCHANGED <<currentBoard, logLevel, dcPort, configVars, prefVars>>

UninstallBoard == Uninstall("uninstallBoard")

UninstallLibrary == Uninstall("uninstallLibrary")

\* verify(), lines 101-114, up to the await.
Verify ==
    /\ Idle
    /\ LET d == getBoardDescriptorString(currentBoard)
           o == [NewOp("verify") EXCEPT !.board = currentBoard,
                                        !.notified = d.notified]
       IN op' = IF NoDescriptor(d) THEN Resolve(o)
                ELSE Spawn(Send(Send(o, "start"), "show"), TRUE,
                           BuildArgs("--verify", d, dcPort, logLevel))
    /\ opsDone' = opsDone + 1
    /\ UNCHANGED <<currentBoard, logLevel, dcPort, configVars, prefVars>>

\* Lines 114-118 and 94-98: both handlers of .then() return normally, so
\* the awaited promise resolves.
ThenHandlers(o, result) ==
    IF SpawnResolves(result) THEN Resolve(Send(o, "end"))
    ELSE Resolve(Send(o, "error"))

VerifySettled ==
    /\ op.pc = "spawned" /\ op.kind = "verify"
    /\ \E result \in ExitInputs :
          op' = ThenHandlers([op EXCEPT !.proc = result], result)
    /\ UNCHANGED <<currentBoard, logLevel, dcPort, opsDone, configVars, prefVars>>

UploadSettled ==
    /\ op.pc = "spawned" /\ op.kind = "upload"
    /\ \E result \in ExitInputs :
          op' = ThenHandlers([op EXCEPT !.proc = result], result)
    /\ UNCHANGED <<currentBoard, logLevel, dcPort, opsDone, configVars, prefVars>>

\* Line 87: `await executeCommand("arduino.closeSerialMonitor", dc.port)`.
AwaitCloseMutantNotAwaited(o, descriptor, port, level) ==
    Spawn([o EXCEPT !.closeSerial = "pending", !.closePort = port], TRUE,
          BuildArgs("--upload", descriptor, port, level))

AwaitClose(o, descriptor, port, level) ==
    [o EXCEPT !.pc = "closing", !.closeSerial = "pending", !.closePort = port]

\* upload(), lines 77-87, up to the first await.
Upload ==
    /\ Idle
    /\ LET d == getBoardDescriptorString(currentBoard)
           o == [NewOp("upload") EXCEPT !.board = currentBoard,
                                        !.notified = d.notified]
       IN op' = IF NoDescriptor(d) THEN Resolve(o)
                ELSE AwaitClose(Send(Send(o, "show"), "start"), d, dcPort,
                                logLevel)
    /\ opsDone' = opsDone + 1
    /\ UNCHANGED <<currentBoard, logLevel, dcPort, configVars, prefVars>>

\* Lines 89-94: the close command has completed; the toolchain starts.  A
\* close command that fails makes the await throw.
CloseSerialMonitorSettled ==
    /\ op.pc = "closing"
    /\ \E closed \in BOOLEAN :
          op' = IF closed
                THEN Spawn([op EXCEPT !.closeSerial = "done"], TRUE,
                           BuildArgs("--upload",
                                     getBoardDescriptorString(op.board),
                                     dcPort, logLevel))
                ELSE Reject([op EXCEPT !.closeSerial = "failed"], "close")
    /\ UNCHANGED <<currentBoard, logLevel, dcPort, opsDone, configVars, prefVars>>

Init ==
    /\ currentBoard \in BoardInputs
    /\ logLevel \in LogLevelInputs
    /\ dcPort \in PortInputs
    /\ op = IdleOp
    /\ opsDone = 0
    /\ ConfigIdle
    /\ PrefsIdle

Next ==
    \/ SetBoardManager
    \/ SelectPort
    \/ InstallBoard
    \/ InstallLibrary
    \/ Initialize
    \/ InitializeLibrary
    \/ InstallSettled
    \/ SetPref
    \/ SetPrefSettled
    \/ UninstallBoard
    \/ UninstallLibrary
    \/ Verify
    \/ VerifySettled
    \/ Upload
    \/ CloseSerialMonitorSettled
    \/ UploadSettled

Spec == Init /\ [][Next]_vars

-----------------------------------------------------------------------------
(* Properties of the toolchain operations.                                 *)

Count(seq, msg) == Cardinality({i \in DOMAIN seq : seq[i] = msg})

ProcessFailed(o) == o.proc \in ExitInputs \ {"0"}

\* C5: verify and upload called with no board selected notify the user,
\* start no toolchain process, and (upload) neither close the serial
\* monitor nor send 'started' to the channel.
C5_NoBoardNoInvocation ==
    (op.kind \in {"verify", "upload"} /\ ~op.board.selected)
    => /\ op.notified = 1
       /\ op.spawns = 0 /\ op.proc = "none"
       /\ op.closeSerial = "none"
       /\ Count(op.channel, "start") = 0
       /\ op.pc = "done"

C5_Witness ==
    /\ op.kind = "upload" /\ ~op.board.selected /\ op.pc = "done"
    /\ op.notified = 1
    /\ logLevel = "verbose" /\ dcPort = "COM2"

\* C6: in upload the toolchain process is started only once the close
\* command for the device's port has completed; the two are never in
\* progress together; a failed close command starts no process.
C6_CloseBeforeInvoke ==
    op.kind = "upload"
    => /\ op.spawns > 0 => (op.closeSerial = "done" /\ op.args[5] = op.closePort)
       /\ ~(op.closeSerial = "pending" /\ op.proc = "running")
       /\ op.closeSerial = "failed" => (op.spawns = 0 /\ op.proc = "none")

C6_Witness ==
    /\ op.kind = "upload" /\ op.board.selected
    /\ op.closeSerial = "done" /\ op.proc = "running" /\ op.spawns = 1

\* C7: installBoard, installLibrary, verify and upload reject with the code
\* when the toolchain process fails, and invoke it once.
C7_FailurePropagates ==
    (/\ op.kind \in {"installBoard", "installLibrary", "verify", "upload"}
     /\ op.pc = "done" /\ ProcessFailed(op))
    => op.outcome = "rejected" /\ op.code = op.proc /\ op.spawns = 1

\* C9: an operation that sent 'started' has sent exactly one closing
\* message when it finishes: 'completed' on success, 'failed' on failure.
C9_LogPairing ==
    (/\ op.kind \in {"installBoard", "installLibrary", "uninstallBoard",
                     "uninstallLibrary", "verify", "upload"}
     /\ op.pc = "done" /\ Count(op.channel, "start") > 0)
    => LET failed == ProcessFailed(op) \/ op.outcome = "rejected" IN
       /\ Count(op.channel, "end") + Count(op.channel, "error") = 1
       /\ ~failed => Count(op.channel, "end") = 1
       /\ failed => Count(op.channel, "error") = 1

-----------------------------------------------------------------------------
(* The preferences map.  The document is a sequence of lines, a line a     *)
(* sequence of whitespace-separated words, a word a sequence of            *)
(* characters.                                                             *)

Unreadable == [readable |-> FALSE]

PrefsText(lines) == [readable |-> TRUE, lines |-> lines]

NotLoaded == [loaded |-> FALSE]

Loaded(map) == [loaded |-> TRUE, map |-> map]

LineInputs ==
    { <<>>,                                     \* ""
      << <<"F", "=", "b">> >>,                  \* "F=b"
      << <<"F", "=", "c">> >>,                  \* "F=c"
      << <<"#">>, <<"x">> >>,                   \* "# x"
      << <<"B">>, <<"=">>, <<"1">> >>,          \* "B = 1"
      << <<"#">>, <<"B", "=", "1", "=", "2">> >> \* "# B=1=2"
    }

PrefsFileInputs ==
    {Unreadable}
    \cup {PrefsText(l) : l \in UNION {[1..n -> LineInputs] : n \in 0..MaxLines}}

\* /(\S+)=(\S+)/ on one word: the key runs to the last "=" that has a
\* character on both sides.
Separators(word) == {j \in 2..(Len(word) - 1) : word[j] = "="}

RegexMatches(word) == Separators(word) # {}

MatchOf(word) ==
    LET j == CHOOSE k \in Separators(word) : \A m \in Separators(word) : m <= k
    IN <<SubSeq(word, 1, j - 1), SubSeq(word, j + 1, Len(word))>>

\* lineRegex.exec(line): the match in the first word that has one.
RECURSIVE ExecLine(_)
ExecLine(line) ==
    IF line = <<>> THEN <<>>
    ELSE IF RegexMatches(Head(line)) THEN MatchOf(Head(line))
         ELSE ExecLine(Tail(line))

\* Lines 249-257: every line that matches sets its key.
RECURSIVE ParseLines(_, _)
ParseLines(lines, map) ==
    IF lines = <<>> THEN map
    ELSE LET match == ExecLine(Head(lines)) IN
         IF match # <<>>
         THEN ParseLines(Tail(lines), Put(map, match[1], match[2]))
         ELSE ParseLines(Tail(lines), map)

\* loadPreferences(), lines 244-258: _preferences is assigned the empty map
\* before the document is read; a read that throws leaves it assigned.
loadPreferences(file) ==
    IF ~file.readable
    THEN [threw |-> TRUE, _preferences |-> Loaded(EmptyObject)]
    ELSE [threw |-> FALSE,
          _preferences |-> Loaded(ParseLines(file.lines, EmptyObject))]

\* get preferences(), lines 229-234.
GetPreferences ==
    /\ Len(accesses) < MaxAccesses
    /\ LET r == IF ~_preferences.loaded THEN loadPreferences(prefsFile)
                ELSE [threw |-> FALSE, _preferences |-> _preferences]
       IN /\ _preferences' = r._preferences
          /\ accesses' = Append(accesses,
                                IF r.threw THEN [threw |-> TRUE]
                                ELSE [threw |-> FALSE,
                                      value |-> r._preferences.map])
    /\ UNCHANGED <<prefsFile, configVars, opVars>>

InitPrefs ==
    /\ prefsFile \in PrefsFileInputs
    /\ _preferences = NotLoaded
    /\ accesses = <<>>
    /\ ConfigIdle
    /\ OpsIdle

NextPrefs == GetPreferences

SpecPrefs == InitPrefs /\ [][NextPrefs]_vars

\* C8: while the preferences document cannot be read, every read of
\* `preferences` throws; none returns a map.
C8_LoadFailureSurfaces ==
    ~prefsFile.readable => \A i \in 1..Len(accesses) : accesses[i].threw

=============================================================================
